---------------------------- MODULE Spec2Model ----------------------------
(***************************************************************************)
(* Trajectory reconstruction (parse_fcd_file) and Edie aggregation         *)
(* (calculate_macroscopic_quantities) of scripts/edies_analysis.py.        *)
(*                                                                         *)
(* Numbers are fixed point: lengths are in centimetres (901.53 m is        *)
(* 90153), times are in whole seconds.  Derived quantities that the code   *)
(* computes by division are exact fractions <<numerator, denominator>>;    *)
(* floating-point rounding is not modelled.                                *)
(***************************************************************************)
EXTENDS Integers, Sequences, FiniteSets, TLC

VARIABLES
    pc,             \* "parsing", "parsed", "parse_raised" (parse_fcd_file);
                    \* "cells", "calc_returned", "calc_raised" (the aggregator)
    err,            \* the exception that ended the run ("" while none)
    stream,         \* the timestep elements consumed so far (the input read)
    trajectories,   \* the table: vehicle id -> time/pos/speed/lane sequences
    lap,            \* the constant-speed vehicle that feeds SpecLap, if any
    params,         \* the aggregator's arguments dx, dt, total_length
    x_bins,         \* np.arange(0, total_length + dx, dx)
    t_bins,         \* np.arange(t_min, t_max + dt, dt)
    density,        \* cell <<t_idx, x_idx>> -> value, as the three arrays
    flow,
    speed,
    todo,           \* the cells the double loop has not reached yet
    acc,            \* the locals total_time_spent, total_distance,
                    \* vehicles_crossed as the last iteration left them
    totals,         \* cell -> the value of those locals at line 126
    added,          \* cell -> vehicle -> what the vehicle's iteration of the
                    \* loop of line 88 added to the three locals
    first_run       \* the arrays returned by an earlier call (SpecOrder)

parsevars == <<stream, trajectories>>

aggvars == <<params, x_bins, t_bins, density, flow, speed, todo, acc, totals,
             added, first_run>>

vars == <<pc, err, stream, trajectories, lap, params, x_bins, t_bins, density,
          flow, speed, todo, acc, totals, added, first_run>>

-----------------------------------------------------------------------------
(* Constants of parse_fcd_file *)

\* a length given in metres, in the model's centimetres
Centimetres(metres) == metres * 100

main_circle_length == 90153

total_length == 100000

NoneValue == "<None>"

-----------------------------------------------------------------------------
(* Bounds of the model *)

\* timestep elements in a general stream
MaxGroups == 2

\* samples of the single vehicle of SpecDrive
MaxSamples == 4

\* laps driven by the constant-speed vehicle of SpecLap
MaxLaps == 3

\* <vehicle> children in a general stream, all timesteps together
MaxObs == 3

\* latest sample time in a table handed to the aggregator directly
MaxT == 3

\* samples per vehicle in a table handed to the aggregator directly
MaxPoints == 3

-----------------------------------------------------------------------------
(* XML elements: a function from the attribute names present to values *)

\* elem.get(name): the attribute, or None when the element lacks it
Get(elem, name) == IF name \in DOMAIN elem THEN elem[name] ELSE NoneValue

\* float(None) raises TypeError; a present attribute converts to its number
FloatRaises(elem, name) == name \notin DOMAIN elem

-----------------------------------------------------------------------------
(* parse_fcd_file *)

EmptyTrajectory == [time |-> <<>>, pos |-> <<>>, speed |-> <<>>, lane |-> <<>>]

\* trajectories[veh_id] of the defaultdict: a missing key reads as empty lists
Lookup(traj, veh_id) ==
    IF veh_id \in DOMAIN traj THEN traj[veh_id] ELSE EmptyTrajectory

\* the connector read as if it started at 0
LanePositionNoOffset(lane, raw_pos) == raw_pos

\* the offset given to every lane but the main circle a_0
LanePositionOffMain(lane, raw_pos) ==
    IF lane = "a_0" THEN raw_pos ELSE main_circle_length + raw_pos

\* lines 22-27: corridor-relative position from the lane and the raw position
LanePosition(lane, raw_pos) ==
    IF lane = "b_0" THEN main_circle_length + raw_pos ELSE raw_pos

\* a drop of exactly L/2 taken as a wrap
WrapCheckAtHalf(prev_pos, pos) ==
    IF prev_pos >= pos + (total_length \div 2) THEN pos + total_length ELSE pos

\* lines 31-35: the in-stream wrap check against the last stored position
WrapCheck(prev_pos, pos) ==
    IF prev_pos > pos + (total_length \div 2) THEN pos + total_length ELSE pos

\* the sample put in front of the lists instead of appended
ReadVehiclePrepends(traj, time, vehicle) ==
    LET veh_id == Get(vehicle, "id")
        old    == Lookup(traj, veh_id)
        new    == [time  |-> <<time>> \o old.time,
                   pos   |-> <<LanePosition(Get(vehicle, "lane"), vehicle["pos"])>>
                                \o old.pos,
                   speed |-> <<vehicle["speed"]>> \o old.speed,
                   lane  |-> <<Get(vehicle, "lane")>> \o old.lane]
    IN  [v \in DOMAIN traj \cup {veh_id} |-> IF v = veh_id THEN new ELSE traj[v]]

\* the wrap check made against the greatest last position held by any vehicle
ReadVehicleSharedPrev(traj, time, vehicle) ==
    LET veh_id  == Get(vehicle, "id")
        lane    == Get(vehicle, "lane")
        raw_pos == vehicle["pos"]
        v_speed == vehicle["speed"]
        old     == Lookup(traj, veh_id)
        pos0    == LanePosition(lane, raw_pos)
        lasts   == { traj[v].pos[Len(traj[v].pos)] : v \in DOMAIN traj }
        prev    == CHOOSE x \in lasts : \A y \in lasts : y <= x
        pos     == IF lasts /= {} THEN WrapCheck(prev, pos0) ELSE pos0
        new     == [time  |-> Append(old.time, time),
                    pos   |-> Append(old.pos, pos),
                    speed |-> Append(old.speed, v_speed),
                    lane  |-> Append(old.lane, lane)]
    IN  [v \in DOMAIN traj \cup {veh_id} |-> IF v = veh_id THEN new ELSE traj[v]]

\* lines 17-40: one <vehicle> child of a timestep; the table after it
ReadVehicle(traj, time, vehicle) ==
    LET veh_id  == Get(vehicle, "id")
        lane    == Get(vehicle, "lane")
        raw_pos == vehicle["pos"]
        v_speed == vehicle["speed"]
        old     == Lookup(traj, veh_id)
        pos0    == LanePosition(lane, raw_pos)
        pos     == IF Len(old.pos) > 0
                       THEN WrapCheck(old.pos[Len(old.pos)], pos0)
                       ELSE pos0
        new     == [time  |-> Append(old.time, time),
                    pos   |-> Append(old.pos, pos),
                    speed |-> Append(old.speed, v_speed),
                    lane  |-> Append(old.lane, lane)]
    IN  [v \in DOMAIN traj \cup {veh_id} |-> IF v = veh_id THEN new ELSE traj[v]]

\* lines 19-20: the conversions of one <vehicle> child that raise
VehicleRaises(vehicle) ==
    FloatRaises(vehicle, "pos") \/ FloatRaises(vehicle, "speed")

RECURSIVE ReadVehicles(_, _, _, _)
\* lines 16-40: the children of one timestep in document order, up to the
\* first one that raises; [traj, raised]
ReadVehicles(traj, time, vehicles, i) ==
    IF i > Len(vehicles) THEN [traj |-> traj, raised |-> FALSE]
    ELSE IF VehicleRaises(vehicles[i]) THEN [traj |-> traj, raised |-> TRUE]
    ELSE ReadVehicles(ReadVehicle(traj, time, vehicles[i]), time, vehicles, i + 1)

\* positions[i:] += amount
AddFrom(positions, i, amount) ==
    [j \in 1..Len(positions) |->
        IF j >= i THEN positions[j] + amount ELSE positions[j]]

RECURSIVE PostPassFrom(_, _)
\* lines 54-57: the loop from index i (1-based here) to the end of the array
PostPassFrom(positions, i) ==
    IF i > Len(positions) THEN positions
    ELSE IF positions[i] < positions[i-1] - (total_length \div 2)
         THEN PostPassFrom(AddFrom(positions, i, total_length), i + 1)
         ELSE PostPassFrom(positions, i + 1)

\* the arrays returned as the in-stream check left them
PostPassSkipped(positions) == positions

\* the post-pass with a threshold of L in place of L/2
RECURSIVE PostPassWholeLengthFrom(_, _)
PostPassWholeLengthFrom(positions, i) ==
    IF i > Len(positions) THEN positions
    ELSE IF positions[i] < positions[i-1] - total_length
         THEN PostPassWholeLengthFrom(AddFrom(positions, i, total_length), i + 1)
         ELSE PostPassWholeLengthFrom(positions, i + 1)

PostPassWholeLength(positions) == PostPassWholeLengthFrom(positions, 2)

\* lines 53-57: the pass over the finished array of one vehicle
PostPass(positions) == PostPassFrom(positions, 2)

\* lines 44-59: every vehicle's arrays after the post-pass
Finished(traj) ==
    [v \in DOMAIN traj |-> [traj[v] EXCEPT !.pos = PostPass(traj[v].pos)]]

\* lines 13-42, one iteration: one <timestep> element with its children
ReadTimestep(elem) ==
    /\ pc = "parsing"
    /\ stream' = Append(stream, elem)
    /\ IF FloatRaises(elem, "time")
       THEN /\ pc' = "parse_raised"
            /\ err' = "TypeError"
            /\ UNCHANGED trajectories
       ELSE LET r == ReadVehicles(trajectories, elem["time"], elem["vehicles"], 1)
            IN  /\ trajectories' = r.traj
                /\ pc' = IF r.raised THEN "parse_raised" ELSE "parsing"
                /\ err' = IF r.raised THEN "TypeError" ELSE ""
    /\ UNCHANGED aggvars

\* lines 44-59: the end of the stream: post-pass and return
ParseReturn ==
    /\ pc = "parsing"
    /\ trajectories' = Finished(trajectories)
    /\ pc' = "parsed"
    /\ UNCHANGED <<err, stream, lap>>
    /\ UNCHANGED aggvars

-----------------------------------------------------------------------------
(* Exact fractions for the quotients the aggregator computes *)

RECURSIVE GCD(_, _)
GCD(a, b) == IF b = 0 THEN a ELSE GCD(b, a % b)

\* n / d in lowest terms, for n >= 0 and d > 0
Frac(n, d) == LET g == GCD(n, d) IN <<n \div g, d \div g>>

Zero == <<0, 1>>

\* f * n / d
Scale(f, n, d) == Frac(f[1] * n, f[2] * d)

MinOf(S) == CHOOSE m \in S : \A n \in S : m <= n

MaxOf(S) == CHOOSE m \in S : \A n \in S : m >= n

-----------------------------------------------------------------------------
(* calculate_macroscopic_quantities *)

\* the length of an arange that keeps a stop lying on the grid of steps
ArangeLenInclusive(start, stop, step) ==
    LET n == IF step > 0 THEN stop - start ELSE start - stop
        m == IF step > 0 THEN step ELSE 0 - step
    IN  IF n < 0 THEN 0 ELSE (n \div m) + 1

\* number of elements of np.arange(start, stop, step), step /= 0:
\* ceil((stop - start) / step), or 0 when that is not positive
ArangeLen(start, stop, step) ==
    LET n == IF step > 0 THEN stop - start ELSE start - stop
        m == IF step > 0 THEN step ELSE 0 - step
    IN  IF n <= 0 THEN 0 ELSE (n + m - 1) \div m

\* np.arange(start, stop, step) as a sequence
Arange(start, stop, step) ==
    [i \in 1..ArangeLen(start, stop, step) |-> start + (i - 1) * step]

\* line 64: the sample times of all vehicles
AllTimes(traj) ==
    UNION { { traj[v].time[i] : i \in 1..Len(traj[v].time) } : v \in DOMAIN traj }

\* the cells of a (T, X) grid, 0-based as the loop indices
Cells(T, X) == (0..(T - 1)) \X (0..(X - 1))

\* the first cell of S in the order of the double loop of lines 77-80
FirstCell(S) ==
    CHOOSE c \in S : \A d \in S : c[1] < d[1] \/ (c[1] = d[1] /\ c[2] <= d[2])

ZeroAcc == [total_time_spent |-> 0, total_distance |-> 0, vehicles_crossed |-> 0]

\* the locals carried over from the previous cell
KeepAcc(a) == a

\* lines 83-85: the three locals are reset at the top of every cell
ResetAcc(a) == ZeroAcc

\* every sample of the vehicle taken, whatever its time
TimeMaskAll(data, t_start, t_end, dt) == 1..Len(data.time)

\* the window without its margin of one bin on each side
TimeMaskNoMargin(data, t_start, t_end, dt) ==
    { i \in 1..Len(data.time) : data.time[i] >= t_start /\ data.time[i] <= t_end }

\* line 90: the indices of the samples in the margin window
TimeMask(data, t_start, t_end, dt) ==
    { i \in 1..Len(data.time) :
        data.time[i] >= t_start - dt /\ data.time[i] <= t_end + dt }

\* line 95: the wrapped position of sample i
Wrapped(data, i, L) == data.pos[i] % L

\* lines 101-102: whether np.interp(x, positions, times, left=nan, right=nan)
\* is nan.  np.interp answers `right` when x > positions[-1], else `left`
\* when x < positions[0], and a number otherwise (the number itself is never
\* used by the caller, so only this is modelled).
InterpIsNan(x, data, window, L) ==
    \/ x > Wrapped(data, MaxOf(window), L)
    \/ x < Wrapped(data, MinOf(window), L)

\* the cell taken as the closed interval [x_start, x_end]
CellMaskClosed(data, window, x_start, x_end, L) ==
    { i \in window : Wrapped(data, i, L) >= x_start /\ Wrapped(data, i, L) <= x_end }

\* line 105: the indices of the window samples inside [x_start, x_end)
CellMask(data, window, x_start, x_end, L) ==
    { i \in window : Wrapped(data, i, L) >= x_start /\ Wrapped(data, i, L) < x_end }

NoContribution == [time |-> 0, distance |-> 0, crossed |-> 0]

\* the time counted from the first in-cell sample, not from the bin start
TimeInCellFromFirst(data, inside, t_start, t_end) ==
    LET last  == data.time[MaxOf(inside)]
        first == data.time[MinOf(inside)]
    IN  (IF t_end < last THEN t_end ELSE last) - first

\* the time between the first and the last in-cell sample, not cut to the bin
TimeInCellUnclamped(data, inside, t_start, t_end) ==
    data.time[MaxOf(inside)] - data.time[MinOf(inside)]

\* line 111: min(t_end, cell_times[-1]) - max(t_start, cell_times[0])
TimeInCell(data, inside, t_start, t_end) ==
    LET last  == data.time[MaxOf(inside)]
        first == data.time[MinOf(inside)]
    IN  (IF t_end < last THEN t_end ELSE last)
            - (IF t_start > first THEN t_start ELSE first)

\* lines 116-118: min(x_end, cell_positions[-1]) - max(x_start, cell_positions[0])
DistanceInCell(data, inside, x_start, x_end, L) ==
    LET last  == Wrapped(data, MaxOf(inside), L)
        first == Wrapped(data, MinOf(inside), L)
    IN  (IF x_end < last THEN x_end ELSE last)
            - (IF x_start > first THEN x_start ELSE first)

\* line 123: np.isnan(t_interp).all()
AllNan(data, window, x_start, x_end, L) ==
    /\ InterpIsNan(x_start, data, window, L)
    /\ InterpIsNan(x_end, data, window, L)

\* the distance added whatever the time in the cell
TimeAndDistanceApart(data, inside, t_start, t_end, x_start, x_end, L) ==
    LET time_in_cell == TimeInCell(data, inside, t_start, t_end)
        distance     == DistanceInCell(data, inside, x_start, x_end, L)
    IN  [time     |-> IF time_in_cell > 0 THEN time_in_cell ELSE 0,
         distance |-> IF distance > 0 THEN distance ELSE 0]

\* what the in-cell samples add to time and distance (lines 111-120)
TimeAndDistance(data, inside, t_start, t_end, x_start, x_end, L) ==
    LET time_in_cell == TimeInCell(data, inside, t_start, t_end)
        distance     == DistanceInCell(data, inside, x_start, x_end, L)
    IN  [time     |-> IF time_in_cell > 0 THEN time_in_cell ELSE 0,
         distance |-> IF time_in_cell > 0 /\ distance > 0 THEN distance ELSE 0]

\* the crossing counted for every vehicle with two window samples, whether
\* or not it has a sample in the cell
ContributionCountsOutside(data, t_start, t_end, x_start, x_end, dt, L) ==
    LET window == TimeMask(data, t_start, t_end, dt)
        inside == CellMask(data, window, x_start, x_end, L)
        td     == TimeAndDistance(data, inside, t_start, t_end, x_start, x_end, L)
        cross  == IF ~AllNan(data, window, x_start, x_end, L) THEN 1 ELSE 0
    IN  IF window = {} THEN NoContribution
        ELSE IF ~(Cardinality(window) > 1) THEN NoContribution
        ELSE IF inside = {} THEN [time |-> 0, distance |-> 0, crossed |-> cross]
        ELSE [time |-> td.time, distance |-> td.distance, crossed |-> cross]

\* the branch of line 99 entered with a single sample in the window
ContributionOfOne(data, t_start, t_end, x_start, x_end, dt, L) ==
    LET window == TimeMask(data, t_start, t_end, dt)
        inside == CellMask(data, window, x_start, x_end, L)
        td     == TimeAndDistance(data, inside, t_start, t_end, x_start, x_end, L)
    IN  IF window = {} THEN NoContribution
        ELSE IF inside = {} THEN NoContribution
        ELSE [time     |-> td.time,
              distance |-> td.distance,
              crossed  |-> IF ~AllNan(data, window, x_start, x_end, L)
                               THEN 1 ELSE 0]

\* lines 88-124: what one vehicle adds to the three locals of one cell
Contribution(data, t_start, t_end, x_start, x_end, dt, L) ==
    LET window == TimeMask(data, t_start, t_end, dt)
        inside == CellMask(data, window, x_start, x_end, L)
        td     == TimeAndDistance(data, inside, t_start, t_end, x_start, x_end, L)
    IN  IF window = {} THEN NoContribution
        ELSE IF ~(Cardinality(window) > 1) THEN NoContribution
        ELSE IF inside = {} THEN NoContribution
        ELSE [time     |-> td.time,
              distance |-> td.distance,
              crossed  |-> IF ~AllNan(data, window, x_start, x_end, L)
                               THEN 1 ELSE 0]

RECURSIVE Accumulate(_, _, _, _, _, _, _, _)
\* lines 88-124: the loop over the vehicles `ids` still to visit
Accumulate(a, traj, ids, t_start, t_end, x_start, x_end, p) ==
    IF ids = {} THEN a
    ELSE LET v == CHOOSE w \in ids : TRUE
             c == Contribution(traj[v], t_start, t_end, x_start, x_end,
                               p.dt, p.total_length)
         IN  Accumulate(
                 [total_time_spent |-> a.total_time_spent + c.time,
                  total_distance   |-> a.total_distance + c.distance,
                  vehicles_crossed |-> a.vehicles_crossed + c.crossed],
                 traj, ids \ {v}, t_start, t_end, x_start, x_end, p)

\* lines 127-131: density of a cell in veh/m (dx is in centimetres here)
CellDensity(a, p) ==
    IF p.dx * p.dt > 0
        THEN Frac(Centimetres(a.total_time_spent), p.dx * p.dt)
        ELSE Zero

\* lines 134-135: flow of a cell in veh/s
CellFlow(a, p) ==
    IF p.dt > 0 THEN Frac(a.vehicles_crossed, p.dt) ELSE Zero

\* lines 138-139: speed of a cell in m/s
CellSpeed(a, p) ==
    IF a.total_time_spent > 0
        THEN Frac(a.total_distance, Centimetres(a.total_time_spent))
        ELSE Zero

\* no earlier call has returned
NoRun == [made |-> FALSE, density |-> <<>>, flow |-> <<>>, speed |-> <<>>]

NotCalled ==
    /\ params = [dx |-> 0, dt |-> 0, total_length |-> 0]
    /\ x_bins = <<>>
    /\ t_bins = <<>>
    /\ density = <<>>
    /\ flow = <<>>
    /\ speed = <<>>
    /\ todo = {}
    /\ acc = ZeroAcc
    /\ totals = <<>>
    /\ added = <<>>
    /\ first_run = NoRun

\* the call ends in an exception; nothing is returned
Raise(exception, p) ==
    /\ pc' = "calc_raised"
    /\ err' = exception
    /\ params' = p
    /\ UNCHANGED <<x_bins, t_bins, density, flow, speed, todo, acc, totals,
                   added>>

\* an empty table read as a table whose only sample time is 0
CalculateEmptyAsZero(dx, dt, L) ==
    LET p     == [dx |-> dx, dt |-> dt, total_length |-> L]
        times == IF DOMAIN trajectories = {} THEN {0} ELSE AllTimes(trajectories)
        xb    == Arange(0, L + dx, dx)
        tb    == Arange(MinOf(times), MaxOf(times) + dt, dt)
    IN  /\ pc \in {"parsed", "calc_returned"}
        /\ IF dx = 0 \/ dt = 0 \/ Len(tb) - 1 < 0 \/ Len(xb) - 1 < 0
               THEN Raise("ValueError", p)
           ELSE /\ pc' = "cells"
                /\ err' = ""
                /\ params' = p
                /\ x_bins' = xb
                /\ t_bins' = tb
                /\ density' = [c \in Cells(Len(tb) - 1, Len(xb) - 1) |-> Zero]
                /\ flow' = [c \in Cells(Len(tb) - 1, Len(xb) - 1) |-> Zero]
                /\ speed' = [c \in Cells(Len(tb) - 1, Len(xb) - 1) |-> Zero]
                /\ todo' = Cells(Len(tb) - 1, Len(xb) - 1)
                /\ totals' = <<>>
                /\ added' = <<>>
                /\ UNCHANGED acc
        /\ UNCHANGED <<first_run, stream, trajectories, lap>>

\* lines 61-74: the call, the time range, the two bin vectors and the zeroed
\* arrays
Calculate(dx, dt, L) ==
    LET p     == [dx |-> dx, dt |-> dt, total_length |-> L]
        t_min == MinOf(AllTimes(trajectories))
        t_max == MaxOf(AllTimes(trajectories))
        xb    == Arange(0, L + dx, dx)
        tb    == Arange(t_min, t_max + dt, dt)
    IN  /\ pc \in {"parsed", "calc_returned"}
        /\ IF DOMAIN trajectories = {}
               THEN Raise("ValueError", p)      \* np.concatenate of no arrays
           ELSE IF dx = 0
               THEN Raise("ZeroDivisionError", p)   \* np.arange, step 0
           ELSE IF dt = 0                       \* np.arange, step 0: the length
               THEN Raise(IF t_max = t_min       \* is nan (0/0) or infinite
                              THEN "ValueError" ELSE "OverflowError", p)
           ELSE IF Len(tb) - 1 < 0 \/ Len(xb) - 1 < 0
               THEN Raise("ValueError", p)      \* np.zeros, negative dimension
           ELSE /\ pc' = "cells"
                /\ err' = ""
                /\ params' = p
                /\ x_bins' = xb
                /\ t_bins' = tb
                /\ density' = [c \in Cells(Len(tb) - 1, Len(xb) - 1) |-> Zero]
                /\ flow' = [c \in Cells(Len(tb) - 1, Len(xb) - 1) |-> Zero]
                /\ speed' = [c \in Cells(Len(tb) - 1, Len(xb) - 1) |-> Zero]
                /\ todo' = Cells(Len(tb) - 1, Len(xb) - 1)
                /\ totals' = <<>>
                /\ added' = <<>>
                /\ UNCHANGED acc
        /\ first_run' = IF pc = "calc_returned"
                            THEN [made |-> TRUE, density |-> density,
                                  flow |-> flow, speed |-> speed]
                            ELSE first_run
        /\ UNCHANGED <<stream, trajectories, lap>>

\* lines 88-124: the increment of every vehicle in the iteration of cell c
Increments(c) ==
    [v \in DOMAIN trajectories |->
        Contribution(trajectories[v], t_bins[c[1] + 1], t_bins[c[1] + 2],
                     x_bins[c[2] + 1], x_bins[c[2] + 2],
                     params.dt, params.total_length)]

\* the positions of the table taken modulo L in place
WrappedTable(traj, L) ==
    [v \in DOMAIN traj |->
        [traj[v] EXCEPT !.pos = [i \in 1..Len(traj[v].pos) |-> traj[v].pos[i] % L]]]

\* the iteration of one cell with line 95 writing back into the table
ProcessCellWrapsTable(c) ==
    LET a == Accumulate(ResetAcc(acc), trajectories, DOMAIN trajectories,
                        t_bins[c[1] + 1], t_bins[c[1] + 2],
                        x_bins[c[2] + 1], x_bins[c[2] + 2], params)
    IN  /\ pc = "cells"
        /\ c \in todo
        /\ acc' = a
        /\ totals' = [d \in DOMAIN totals \cup {c} |-> IF d = c THEN a ELSE totals[d]]
        /\ added' = [d \in DOMAIN added \cup {c} |->
                         IF d = c THEN Increments(c) ELSE added[d]]
        /\ density' = [density EXCEPT ![c] = CellDensity(a, params)]
        /\ flow' = [flow EXCEPT ![c] = CellFlow(a, params)]
        /\ speed' = [speed EXCEPT ![c] = CellSpeed(a, params)]
        /\ todo' = todo \ {c}
        /\ trajectories' = WrappedTable(trajectories, params.total_length)
        /\ UNCHANGED <<pc, err, stream, lap, params, x_bins, t_bins, first_run>>

\* lines 77-139, one iteration of the inner loop: cell c = <<t_idx, x_idx>>
ProcessCell(c) ==
    LET a == Accumulate(ResetAcc(acc), trajectories, DOMAIN trajectories,
                        t_bins[c[1] + 1], t_bins[c[1] + 2],
                        x_bins[c[2] + 1], x_bins[c[2] + 2], params)
    IN  /\ pc = "cells"
        /\ c \in todo
        /\ acc' = a
        /\ totals' = [d \in DOMAIN totals \cup {c} |-> IF d = c THEN a ELSE totals[d]]
        /\ added' = [d \in DOMAIN added \cup {c} |->
                         IF d = c THEN Increments(c) ELSE added[d]]
        /\ density' = [density EXCEPT ![c] = CellDensity(a, params)]
        /\ flow' = [flow EXCEPT ![c] = CellFlow(a, params)]
        /\ speed' = [speed EXCEPT ![c] = CellSpeed(a, params)]
        /\ todo' = todo \ {c}
        /\ UNCHANGED <<pc, err, stream, trajectories, lap, params, x_bins, t_bins,
                       first_run>>

\* the double loop visits the cells in row-major order
ProcessNextCell == todo /= {} /\ ProcessCell(FirstCell(todo))

\* the arrays returned in veh/m, veh/s and m/s
CalcReturnUnconverted ==
    /\ pc = "cells"
    /\ todo = {}
    /\ pc' = "calc_returned"
    /\ UNCHANGED <<err, stream, trajectories, lap, params, x_bins, t_bins, density,
                   flow, speed, todo, acc, totals, added, first_run>>

\* line 146: t_bins[:-1] and x_bins[:-1], the bin starts handed back
BinStarts(bins) == SubSeq(bins, 1, Len(bins) - 1)

\* lines 141-146: the unit conversion of the three arrays and the return
CalcReturn ==
    /\ pc = "cells"
    /\ todo = {}
    /\ density' = [c \in DOMAIN density |-> Scale(density[c], 1000, 1)]
    /\ flow' = [c \in DOMAIN flow |-> Scale(flow[c], 3600, 1)]
    /\ speed' = [c \in DOMAIN speed |-> Scale(speed[c], 36, 10)]
    /\ pc' = "calc_returned"
    /\ UNCHANGED <<err, stream, trajectories, lap, params, x_bins, t_bins, todo,
                   acc, totals, added, first_run>>

-----------------------------------------------------------------------------
(* Input streams *)

NoLap == [step |-> 0, laps |-> 0, k |-> 0]

\* a well-formed <vehicle> child
Vehicle(id, lane, raw_pos, v_speed) ==
    [id |-> id, lane |-> lane, pos |-> raw_pos, speed |-> v_speed]

\* a well-formed <timestep> element
Timestep(time, vehicles) == [time |-> time, vehicles |-> vehicles]

\* the lane and raw position at which the simulator reports a vehicle that is
\* c centimetres along the corridor (a_0 covers [0, 901.53 m), b_0 the rest)
OnRing(id, c, v_speed) ==
    IF c >= main_circle_length
        THEN Vehicle(id, "b_0", c - main_circle_length, v_speed)
        ELSE Vehicle(id, "a_0", c, v_speed)

\* distance per sample (v * dt) of the constant-speed vehicle, in centimetres
LapSteps == {10000, 20000, 25000, 30000, 40000, 45000, 49999, 50000, 60000}

InitLap ==
    /\ pc = "parsing"
    /\ err = ""
    /\ stream = <<>>
    /\ trajectories = <<>>
    /\ lap \in [step : LapSteps, laps : 1..MaxLaps, k : {0}]
    /\ NotCalled

\* the next sample of the constant-speed vehicle: time k, position (v*t) mod L
LapTimestep ==
    /\ lap.k * lap.step <= lap.laps * total_length
    /\ ReadTimestep(Timestep(lap.k,
           <<OnRing("v1", (lap.k * lap.step) % total_length, lap.step)>>))
    /\ lap' = [lap EXCEPT !.k = @ + 1]

LapReturn ==
    /\ lap.k * lap.step > lap.laps * total_length
    /\ ParseReturn

NextLap == LapTimestep \/ LapReturn

SpecLap == InitLap /\ [][NextLap]_vars

\* places where the single vehicle of SpecDrive is reported
DrivePlaces ==
    { Vehicle("v1", "a_0", p, 1000) : p \in {0, 10000, 20000, 45000, 60000, 89000} }
    \cup { Vehicle("v1", "b_0", p, 1000) : p \in {100, 9000} }
    \cup { Vehicle("v1", "c_0", 20000, 1000),
           [id |-> "v1", pos |-> 45000, speed |-> 1000] }

InitDrive ==
    /\ pc = "parsing"
    /\ err = ""
    /\ stream = <<>>
    /\ trajectories = <<>>
    /\ lap = NoLap
    /\ NotCalled

\* one more timestep, one second later, reporting the vehicle anywhere
DriveTimestep ==
    /\ Len(stream) < MaxSamples
    /\ \E v \in DrivePlaces : ReadTimestep(Timestep(Len(stream), <<v>>))
    /\ UNCHANGED lap

DriveReturn == ParseReturn

NextDrive == DriveTimestep \/ DriveReturn

SpecDrive == InitDrive /\ [][NextDrive]_vars

-----------------------------------------------------------------------------
(* The pipeline of main(): a general stream, then the aggregator *)

\* <vehicle> children of a general stream; three of them lack an attribute
StreamVehicles ==
    { Vehicle("v1", "a_0", 0, 1000),
      Vehicle("v1", "a_0", 60000, 1000),
      Vehicle("v2", "a_0", 0, 1000),
      [lane |-> "a_0", pos |-> 0, speed |-> 1000],
      [id |-> "v1", lane |-> "a_0", speed |-> 1000],
      [id |-> "v1", lane |-> "a_0", pos |-> 0] }

RECURSIVE Observations(_)
\* the number of <vehicle> children in the timesteps s
Observations(s) ==
    IF s = <<>> THEN 0
    ELSE Len(Head(s)["vehicles"]) + Observations(Tail(s))

\* the time attribute of the last timestep read (0 before the first)
LastTime == IF stream = <<>> THEN 0 ELSE stream[Len(stream)]["time"]

\* the sequences of at most n children
Children(n) == UNION { [1..k -> StreamVehicles] : k \in 0..n }

\* grids the pipeline asks for (dx in centimetres, dt in seconds)
MainParams == { [dx |-> 50000, dt |-> 1, total_length |-> total_length] }

Init ==
    /\ pc = "parsing"
    /\ err = ""
    /\ stream = <<>>
    /\ trajectories = <<>>
    /\ lap = NoLap
    /\ NotCalled

\* the next timestep of the stream: its time is not below the last one, or is
\* missing; its children are any of StreamVehicles
StreamTimestep ==
    /\ Len(stream) < MaxGroups
    /\ \E vs \in Children(MaxObs - Observations(stream)) :
          \/ \E step \in {0, 1} : ReadTimestep(Timestep(LastTime + step, vs))
          \/ vs = <<>> /\ ReadTimestep([vehicles |-> vs])
    /\ UNCHANGED lap

StreamEnd == ParseReturn

MainCalculate ==
    /\ pc = "parsed"
    /\ \E g \in MainParams : Calculate(g.dx, g.dt, g.total_length)

Next ==
    \/ StreamTimestep
    \/ StreamEnd
    \/ MainCalculate
    \/ ProcessNextCell
    \/ CalcReturn

Spec == Init /\ [][Next]_vars

-----------------------------------------------------------------------------
(* The aggregator on tables handed to it directly *)

(* The aggregator called twice on one table, the second time visiting the
   cells in any order *)

\* grids of the repeated call (dx in centimetres, dt in seconds)
OrderParams == { [dx |-> 50000, dt |-> 2, total_length |-> total_length] }

OrderCalculate ==
    /\ pc = "parsed"
    /\ \E g \in OrderParams : Calculate(g.dx, g.dt, g.total_length)

\* the first call visits the cells as the double loop does
OrderFirstPass == ~first_run.made /\ ProcessNextCell

\* the same call once more on the same table
OrderRecalculate ==
    /\ pc = "calc_returned"
    /\ ~first_run.made
    /\ Calculate(params.dx, params.dt, params.total_length)

\* the second call visits the cells in any order
OrderSecondPass == first_run.made /\ \E c \in todo : ProcessCell(c)

NextOrder ==
    \/ OrderCalculate
    \/ OrderFirstPass
    \/ CalcReturn
    \/ OrderRecalculate
    \/ OrderSecondPass

RECURSIVE Increasing(_, _)
\* the strictly increasing sequences of n times taken from lo..MaxT
Increasing(n, lo) ==
    IF n = 0 THEN { <<>> }
    ELSE UNION { { <<t>> \o r : r \in Increasing(n - 1, t + 1) } : t \in lo..MaxT }

\* continuous positions of the drawn samples: cell interiors, a cell boundary
\* and a position of the second lap
AggPositions == {0, 50000, 80000, 130000}

Constantly(n, x) == [i \in 1..n |-> x]

\* the trajectories of at most MaxPoints samples
AggTrajectories ==
    UNION { UNION { { [time |-> ts, pos |-> ps, speed |-> Constantly(n, 1000),
                       lane |-> Constantly(n, "a_0")] :
                      ps \in [1..n -> AggPositions] } :
                    ts \in Increasing(n, 0) } :
            n \in 1..MaxPoints }

\* the second vehicle of a drawn table, when it has one
SecondTrajectories ==
    { [time |-> <<0, 1>>, pos |-> <<0, 50000>>, speed |-> <<1000, 1000>>,
       lane |-> <<"a_0", "a_0">>],
      [time |-> <<1>>, pos |-> <<80000>>, speed |-> <<1000>>, lane |-> <<"a_0">>] }

AggTables ==
    { [v \in {"v1"} |-> d] : d \in AggTrajectories }
    \cup { [v \in {"v1", "v2"} |-> IF v = "v1" THEN d ELSE e] :
             d \in AggTrajectories, e \in SecondTrajectories }

\* grids, sound and degenerate (dx in centimetres, dt in seconds)
GridParams ==
    { [dx |-> g[1], dt |-> g[2], total_length |-> total_length] :
        g \in { <<50000, 1>>, <<50000, 2>>, <<25000, 2>>, <<40000, 2>>,
                <<0, 1>>, <<50000, 0>>, <<0, 0>>,
                <<0 - 50000, 1>>, <<0 - 200000, 1>>,
                <<50000, 0 - 1>>, <<50000, 0 - 5>> } }

\* sampling intervals of the concrete scenario, in seconds
ScenarioIntervals == {1, 2, 5, 10}

\* one vehicle from t = 0, pos = 0 at 10 m/s, observed until t = 100
ScenarioTable(interval) ==
    LET n == (100 \div interval) + 1
    IN  [v \in {"v1"} |->
            [time  |-> [i \in 1..n |-> (i - 1) * interval],
             pos   |-> [i \in 1..n |-> (i - 1) * interval * 1000],
             speed |-> Constantly(n, 1000),
             lane  |-> Constantly(n, "a_0")]]

\* L = 1000 m, dx = 100 m, dt = 100 s
ScenarioParams == [dx |-> 10000, dt |-> 100, total_length |-> 100000]

IsScenario == \E i \in ScenarioIntervals : trajectories = ScenarioTable(i)

\* corridor positions at which a vehicle enters for one full traversal
SweepOrigins == {25000, 95000}

\* one vehicle from t = 0 at 10 m/s, entering at `origin` and observed until
\* it has driven the corridor length once (t = 100)
SweepTable(interval, origin) ==
    LET n == (100 \div interval) + 1
    IN  [v \in {"v1"} |->
            [time  |-> [i \in 1..n |-> (i - 1) * interval],
             pos   |-> [i \in 1..n |-> origin + (i - 1) * interval * 1000],
             speed |-> Constantly(n, 1000),
             lane  |-> Constantly(n, "a_0")]]

SweepTables ==
    { SweepTable(i, o) : i \in ScenarioIntervals, o \in SweepOrigins }

\* grids with several time bins over the 100 s of a traversal
SweepGrids ==
    { [dx |-> g[1], dt |-> g[2], total_length |-> total_length] :
        g \in { <<10000, 50>>, <<25000, 30>> } }

\* the grids a drawn table is aggregated on
GridsFor(traj) ==
    IF \E i \in ScenarioIntervals : traj = ScenarioTable(i) THEN {ScenarioParams}
    ELSE IF traj \in SweepTables THEN SweepGrids
    ELSE GridParams

InitAgg ==
    /\ pc = "parsed"
    /\ err = ""
    /\ stream = <<>>
    /\ trajectories \in AggTables \cup SweepTables
                          \cup { ScenarioTable(i) : i \in ScenarioIntervals }
    /\ lap = NoLap
    /\ NotCalled

AggCalculate ==
    /\ pc = "parsed"
    /\ \E g \in GridsFor(trajectories) : Calculate(g.dx, g.dt, g.total_length)

NextAgg == AggCalculate \/ ProcessNextCell \/ CalcReturn

SpecAgg == InitAgg /\ [][NextAgg]_vars

InitOrder ==
    /\ pc = "parsed"
    /\ err = ""
    /\ stream = <<>>
    /\ trajectories \in AggTables
    /\ lap = NoLap
    /\ NotCalled

SpecOrder == InitOrder /\ [][NextOrder]_vars

(* The aggregator on two vehicles that differ in one sample *)

\* continuous positions of the samples of these tables
MarginPositions == {0, 30000, 80000}

\* the trajectories of 2 .. MaxPoints samples
MarginTrajectories ==
    UNION { UNION { { [time |-> ts, pos |-> ps, speed |-> Constantly(n, 1000),
                       lane |-> Constantly(n, "a_0")] :
                      ps \in [1..n -> MarginPositions] } :
                    ts \in Increasing(n, 0) } :
            n \in 2..MaxPoints }

\* sequence s without its element i
Without(s, i) == [j \in 1..(Len(s) - 1) |-> IF j < i THEN s[j] ELSE s[j + 1]]

\* trajectory d with sample i removed
SampleRemoved(d, i) ==
    [time  |-> Without(d.time, i), pos  |-> Without(d.pos, i),
     speed |-> Without(d.speed, i), lane |-> Without(d.lane, i)]

\* trajectory d with sample i moved to position x
SampleMoved(d, i, x) == [d EXCEPT !.pos[i] = x]

\* the trajectories that differ from d in exactly one sample
OneSampleAway(d) ==
    { SampleRemoved(d, i) : i \in 1..Len(d.time) }
    \cup UNION { { SampleMoved(d, i, x) : x \in MarginPositions \ {d.pos[i]} } :
                  i \in 1..Len(d.time) }

MarginTables ==
    UNION { { [v \in {"v1", "v2"} |-> IF v = "v1" THEN d ELSE e] :
              e \in OneSampleAway(d) } : d \in MarginTrajectories }

\* the grid of these calls: dx = 500 m, dt = 1 s
MarginParams == { [dx |-> 50000, dt |-> 1, total_length |-> total_length] }

InitMargin ==
    /\ pc = "parsed"
    /\ err = ""
    /\ stream = <<>>
    /\ trajectories \in MarginTables
    /\ lap = NoLap
    /\ NotCalled

MarginCalculate ==
    /\ pc = "parsed"
    /\ \E g \in MarginParams : Calculate(g.dx, g.dt, g.total_length)

NextMargin == MarginCalculate \/ ProcessNextCell \/ CalcReturn

SpecMargin == InitMargin /\ [][NextMargin]_vars

-----------------------------------------------------------------------------
(* calculate_macroscopic_quantities of scripts/mixed_edies_analysis.py: the
   same aggregation over the vehicles of one type.  Its tables carry a
   `type` per vehicle; lines 75-94 and 100-157 are the statements of
   edies_analysis.py lines 67-86 and 89-146. *)

\* lines 71 and 97: vehicle `data` is taken when no type is asked for or its
\* type is the one asked for
TypeMatches(data, veh_type) == veh_type = NoneValue \/ data.type = veh_type

\* the vehicles the loops of lines 70 and 96 do not skip
Matching(traj, veh_type) == { v \in DOMAIN traj : TypeMatches(traj[v], veh_type) }

\* lines 69-72: all_times
MixedTimes(traj, veh_type) ==
    UNION { { traj[v].time[i] : i \in 1..Len(traj[v].time) } :
            v \in Matching(traj, veh_type) }

\* the time range taken over the vehicles of every type
MixedCalculateRangeOfAll(dx, dt, L, veh_type) ==
    LET p     == [dx |-> dx, dt |-> dt, total_length |-> L, veh_type |-> veh_type]
        t_min == MinOf(AllTimes(trajectories))
        t_max == MaxOf(AllTimes(trajectories))
        xb    == Arange(0, L + dx, dx)
        tb    == Arange(t_min, t_max + dt, dt)
    IN  /\ pc = "parsed"
        /\ IF AllTimes(trajectories) = {}
               THEN Raise("ValueError", p)
           ELSE IF dx = 0
               THEN Raise("ZeroDivisionError", p)
           ELSE IF dt = 0
               THEN Raise(IF t_max = t_min
                              THEN "ValueError" ELSE "OverflowError", p)
           ELSE IF Len(tb) - 1 < 0 \/ Len(xb) - 1 < 0
               THEN Raise("ValueError", p)
           ELSE /\ pc' = "cells"
                /\ err' = ""
                /\ params' = p
                /\ x_bins' = xb
                /\ t_bins' = tb
                /\ density' = [c \in Cells(Len(tb) - 1, Len(xb) - 1) |-> Zero]
                /\ flow' = [c \in Cells(Len(tb) - 1, Len(xb) - 1) |-> Zero]
                /\ speed' = [c \in Cells(Len(tb) - 1, Len(xb) - 1) |-> Zero]
                /\ todo' = Cells(Len(tb) - 1, Len(xb) - 1)
                /\ totals' = <<>>
                /\ added' = <<>>
                /\ UNCHANGED acc
        /\ UNCHANGED <<first_run, stream, trajectories, lap>>

\* lines 66-82: the call, the time range of the matching vehicles, the two
\* bin vectors and the zeroed arrays
MixedCalculate(dx, dt, L, veh_type) ==
    LET p     == [dx |-> dx, dt |-> dt, total_length |-> L, veh_type |-> veh_type]
        times == MixedTimes(trajectories, veh_type)
        t_min == MinOf(times)
        t_max == MaxOf(times)
        xb    == Arange(0, L + dx, dx)
        tb    == Arange(t_min, t_max + dt, dt)
    IN  /\ pc = "parsed"
        /\ IF times = {}
               THEN Raise("ValueError", p)      \* min() of an empty list
           ELSE IF dx = 0
               THEN Raise("ZeroDivisionError", p)
           ELSE IF dt = 0
               THEN Raise(IF t_max = t_min
                              THEN "ValueError" ELSE "OverflowError", p)
           ELSE IF Len(tb) - 1 < 0 \/ Len(xb) - 1 < 0
               THEN Raise("ValueError", p)
           ELSE /\ pc' = "cells"
                /\ err' = ""
                /\ params' = p
                /\ x_bins' = xb
                /\ t_bins' = tb
                /\ density' = [c \in Cells(Len(tb) - 1, Len(xb) - 1) |-> Zero]
                /\ flow' = [c \in Cells(Len(tb) - 1, Len(xb) - 1) |-> Zero]
                /\ speed' = [c \in Cells(Len(tb) - 1, Len(xb) - 1) |-> Zero]
                /\ todo' = Cells(Len(tb) - 1, Len(xb) - 1)
                /\ totals' = <<>>
                /\ added' = <<>>
                /\ UNCHANGED acc
        /\ UNCHANGED <<first_run, stream, trajectories, lap>>

\* lines 96-135: the increment of every vehicle in the iteration of cell c;
\* a vehicle of another type is skipped (line 98)
MixedIncrements(c) ==
    [v \in DOMAIN trajectories |->
        IF TypeMatches(trajectories[v], params.veh_type)
            THEN Contribution(trajectories[v], t_bins[c[1] + 1], t_bins[c[1] + 2],
                              x_bins[c[2] + 1], x_bins[c[2] + 2],
                              params.dt, params.total_length)
            ELSE NoContribution]

\* lines 85-150, one iteration of the inner loop: cell c = <<t_idx, x_idx>>
MixedProcessCell(c) ==
    LET a == Accumulate(ResetAcc(acc), trajectories,
                        Matching(trajectories, params.veh_type),
                        t_bins[c[1] + 1], t_bins[c[1] + 2],
                        x_bins[c[2] + 1], x_bins[c[2] + 2], params)
    IN  /\ pc = "cells"
        /\ c \in todo
        /\ acc' = a
        /\ totals' = [d \in DOMAIN totals \cup {c} |-> IF d = c THEN a ELSE totals[d]]
        /\ added' = [d \in DOMAIN added \cup {c} |->
                         IF d = c THEN MixedIncrements(c) ELSE added[d]]
        /\ density' = [density EXCEPT ![c] = CellDensity(a, params)]
        /\ flow' = [flow EXCEPT ![c] = CellFlow(a, params)]
        /\ speed' = [speed EXCEPT ![c] = CellSpeed(a, params)]
        /\ todo' = todo \ {c}
        /\ UNCHANGED <<pc, err, stream, trajectories, lap, params, x_bins, t_bins,
                       first_run>>

(* The mixed aggregator on a typed table, then the plain aggregator on the
   sub-table of the type asked for *)

\* trajectory d as a vehicle of type t
WithType(d, t) ==
    [time |-> d.time, pos |-> d.pos, speed |-> d.speed, lane |-> d.lane,
     type |-> t]

\* the types parse_fcd_file of mixed_edies_analysis.py assigns (line 25)
VehicleTypes == {"regular", "stable"}

\* continuous positions of the first vehicle of a typed table
MixedPositions == {0, 80000}

MixedTrajectories ==
    UNION { UNION { { [time |-> ts, pos |-> ps, speed |-> Constantly(n, 1000),
                       lane |-> Constantly(n, "a_0")] :
                      ps \in [1..n -> MixedPositions] } :
                    ts \in Increasing(n, 0) } :
            n \in 1..MaxPoints }

\* a regular vehicle v1 and a vehicle v2 of either type; or a regular v1, a
\* stable v2 and a regular v3
MixedTables ==
    { [v \in {"v1", "v2"} |->
          IF v = "v1" THEN WithType(d, "regular") ELSE WithType(e, t)] :
        d \in MixedTrajectories, e \in SecondTrajectories, t \in VehicleTypes }
    \cup { [v \in {"v1", "v2", "v3"} |->
               IF v = "v2" THEN WithType(e, "stable") ELSE WithType(d, "regular")] :
             d \in MixedTrajectories, e \in SecondTrajectories }

\* the grid of these calls: dx = 500 m, dt = 1 s
MixedParams == { [dx |-> 50000, dt |-> 1, total_length |-> total_length] }

\* the table of the vehicles of type veh_type (the whole table for None)
SubTable(traj, veh_type) ==
    [v \in Matching(traj, veh_type) |-> traj[v]]

InitMixed ==
    /\ pc = "parsed"
    /\ err = ""
    /\ stream = <<>>
    /\ trajectories \in MixedTables
    /\ lap = NoLap
    /\ NotCalled

\* the mixed aggregator is called for one type, or for None
MixedCall ==
    /\ ~first_run.made
    /\ \E g \in MixedParams : \E t \in VehicleTypes \cup {NoneValue} :
          MixedCalculate(g.dx, g.dt, g.total_length, t)

MixedProcessNextCell ==
    /\ ~first_run.made
    /\ todo /= {}
    /\ MixedProcessCell(FirstCell(todo))

\* the outcome of the mixed call is kept and the sub-table of the type asked
\* for is built
TakeSubTable ==
    /\ pc \in {"calc_returned", "calc_raised"}
    /\ ~first_run.made
    /\ first_run' = [made |-> TRUE, density |-> density, flow |-> flow,
                      speed |-> speed, t_bins |-> BinStarts(t_bins),
                      x_bins |-> BinStarts(x_bins), raised |-> pc = "calc_raised",
                      err |-> err, veh_type |-> params.veh_type,
                      table |-> trajectories]
    /\ trajectories' = SubTable(trajectories, params.veh_type)
    /\ pc' = "parsed"
    /\ err' = ""
    /\ UNCHANGED <<stream, lap, params, x_bins, t_bins, density, flow, speed,
                   todo, acc, totals, added>>

\* the plain aggregator is called on the sub-table with the same grid
PlainCall ==
    /\ pc = "parsed"
    /\ first_run.made
    /\ Calculate(params.dx, params.dt, params.total_length)

PlainProcessNextCell == first_run.made /\ ProcessNextCell

NextMixed ==
    \/ MixedCall
    \/ MixedProcessNextCell
    \/ CalcReturn
    \/ TakeSubTable
    \/ PlainCall
    \/ PlainProcessNextCell

SpecMixed == InitMixed /\ [][NextMixed]_vars

-----------------------------------------------------------------------------
(* Claims about parse_fcd_file on one vehicle *)

\* the returned arrays of vehicle v1
V1 == Lookup(trajectories, "v1")

\* the <vehicle> child that produced sample i of v1 when every timestep
\* carries exactly one child (SpecLap, SpecDrive)
Child(i) == stream[i]["vehicles"][1]

Returned == pc = "parsed"

\* C1 as stated: for a vehicle at constant speed whose corridor-relative
\* position is (v*t) mod L, every stored position equals v*t, for any speed
\* and sampling interval and any number of laps.
C1_LapPositionsAnyStep ==
    (Returned /\ lap.laps >= 1) =>
        \A i \in 1..Len(V1.pos) : V1.pos[i] = (i - 1) * lap.step

\* C1 amended: the same, provided the vehicle advances less than half the
\* corridor between consecutive samples (v*dt < L/2).
C1_LapPositions ==
    (Returned /\ lap.laps >= 1 /\ 2 * lap.step < total_length) =>
        \A i \in 1..Len(V1.pos) : V1.pos[i] = (i - 1) * lap.step

\* three laps at less than L/2 per sample returned with the last position
\* beyond 3L: the in-stream check and the post-pass both acted
C1_Witness ==
    /\ Returned
    /\ lap.laps >= 3
    /\ 2 * lap.step < total_length
    /\ Len(V1.pos) = lap.k
    /\ V1.pos[Len(V1.pos)] >= 3 * total_length
    /\ V1.pos[Len(V1.pos)] = (lap.k - 1) * lap.step

\* sample j of v1 was stored without any lap correction
Uncorrected(j) == V1.pos[j] = LanePosition(Get(Child(j), "lane"), Child(j)["pos"])

\* C2 as stated: every sample taken on the connector b_0 is stored as
\* S + raw_position, whatever came before it.
C2_ConnectorExact ==
    Returned =>
        \A i \in 1..Len(V1.pos) :
            V1.lane[i] = "b_0" =>
                V1.pos[i] = main_circle_length + Child(i)["pos"]

\* C2 amended: a connector sample is stored as S + raw_position plus a whole
\* number (>= 0) of corridor lengths, and as exactly S + raw_position while
\* no earlier sample of the vehicle has been lap-corrected (first lap): the
\* transition onto the connector adds no lap by itself.
C2_ConnectorStitched ==
    Returned =>
        \A i \in 1..Len(V1.pos) :
            V1.lane[i] = "b_0" =>
                LET d == V1.pos[i] - (main_circle_length + Child(i)["pos"])
                IN  /\ d >= 0
                    /\ d % total_length = 0
                    /\ (\A j \in 1..(i-1) : Uncorrected(j)) => d = 0

\* a first-lap transition from a_0 onto b_0 with the raw position reset to 1 m
C2_Witness ==
    /\ Returned
    /\ \E i \in 2..Len(V1.pos) :
          /\ V1.lane[i-1] = "a_0"
          /\ V1.lane[i] = "b_0"
          /\ Child(i-1)["pos"] = 89000
          /\ Child(i)["pos"] = 100
          /\ \A j \in 1..(i-1) : Uncorrected(j)
          /\ V1.pos[i] = main_circle_length + 100

\* C6: in every returned trajectory no stored position is more than L/2
\* below its predecessor.
C6_BoundedDrop ==
    Returned =>
        \A v \in DOMAIN trajectories :
            \A i \in 2..Len(trajectories[v].pos) :
                trajectories[v].pos[i] >=
                    trajectories[v].pos[i-1] - (total_length \div 2)

\* a returned trajectory holding a position beyond 2L, which only the
\* post-pass on top of the in-stream check produces
C6_Witness ==
    /\ Returned
    /\ \E i \in 2..Len(V1.pos) :
          /\ V1.pos[i] >= 2 * total_length
          /\ V1.pos[i] >= V1.pos[i-1] - (total_length \div 2)

-----------------------------------------------------------------------------
(* Claims about the aggregator *)

CalcReturned == pc = "calc_returned"

\* the cells whose iteration is over
Processed == DOMAIN density \ todo

\* vehicle v has a sample in the margin window of time bin t_idx whose wrapped
\* position lies in space bin x_idx
SampleIn(v, c) ==
    \E i \in 1..Len(trajectories[v].time) :
        /\ trajectories[v].time[i] >= t_bins[c[1] + 1] - params.dt
        /\ trajectories[v].time[i] <= t_bins[c[1] + 2] + params.dt
        /\ trajectories[v].pos[i] % params.total_length >= x_bins[c[2] + 1]
        /\ trajectories[v].pos[i] % params.total_length < x_bins[c[2] + 2]

\* C3: in the concrete scenario (L = 1000 m, dx = 100 m, dt = 100 s, 10 m/s
\* from t = 0 to t = 100) each of the 10 cells of time bin [0, 100) gets
\* time_spent 10 s, distance 100 m and one crossing, hence density 1 veh/km,
\* speed 36 km/h and flow 36 veh/hr.
C3_ScenarioValues ==
    (CalcReturned /\ IsScenario) =>
        /\ DOMAIN density = Cells(1, 10)
        /\ \A x \in 0..9 :
              /\ totals[<<0, x>>].total_time_spent = 10
              /\ totals[<<0, x>>].total_distance = Centimetres(100)
              /\ totals[<<0, x>>].vehicles_crossed = 1
              /\ density[<<0, x>>] = <<1, 1>>
              /\ speed[<<0, x>>] = <<36, 1>>
              /\ flow[<<0, x>>] = <<36, 1>>

\* C4: a processed cell in which no vehicle has a margin-restricted sample
\* has density, flow and speed exactly 0.
C4_EmptyCellIsZero ==
    \A c \in Processed :
        (\A v \in DOMAIN trajectories : ~SampleIn(v, c)) =>
            density[c] = Zero /\ flow[c] = Zero /\ speed[c] = Zero

\* a returned grid with a sample-free cell one of whose boundaries lies
\* within the wrapped positions of a vehicle with two samples in the window
C4_Witness ==
    /\ CalcReturned
    /\ \E c \in DOMAIN density :
          /\ \A v \in DOMAIN trajectories : ~SampleIn(v, c)
          /\ \E v \in DOMAIN trajectories :
                /\ Len(trajectories[v].time) >= 2
                /\ trajectories[v].time[Len(trajectories[v].time)]
                       <= t_bins[c[1] + 2] + params.dt
                /\ trajectories[v].time[1] >= t_bins[c[1] + 1] - params.dt
                /\ trajectories[v].pos[1] % params.total_length < x_bins[c[2] + 1]
                /\ trajectories[v].pos[Len(trajectories[v].pos)]
                       % params.total_length > x_bins[c[2] + 1]
          /\ density[c] = Zero /\ flow[c] = Zero /\ speed[c] = Zero

\* C5: a second call on the same table and grid, visiting the cells in any
\* order, returns the arrays of the first call.
C5_SameArrays ==
    (CalcReturned /\ first_run.made) =>
        /\ density = first_run.density
        /\ flow = first_run.flow
        /\ speed = first_run.speed

\* a second call returned on a grid of four cells, two of them with a
\* non-zero density
C5_Witness ==
    /\ CalcReturned
    /\ first_run.made
    /\ Cardinality(DOMAIN density) >= 4
    /\ \E c, d \in DOMAIN density :
          c /= d /\ density[c] /= Zero /\ density[d] /= Zero /\ flow[d] /= Zero

\* a grid was asked for with dx <= 0 or dt <= 0
Degenerate == pc /= "parsed" /\ (params.dx <= 0 \/ params.dt <= 0)

\* C9: a call with dx <= 0 or dt <= 0 ends in an error and returns no arrays.
C9_DegenerateRaises == Degenerate => pc = "calc_raised"

-----------------------------------------------------------------------------
(* Claims about the pipeline *)

\* a timestep read lacks its time, or one of its children lacks id, pos or
\* speed
Malformed ==
    \E k \in 1..Len(stream) :
        \/ "time" \notin DOMAIN stream[k]
        \/ \E i \in 1..Len(stream[k]["vehicles"]) :
              ~({"id", "pos", "speed"} \subseteq DOMAIN stream[k]["vehicles"][i])

\* C7 as stated: the times of every returned trajectory are strictly
\* increasing, whenever the (well-formed) timesteps arrive in non-decreasing
\* time order.
C7_TimeStrictlyIncreasing ==
    (Returned /\ ~Malformed) =>
        \A v \in DOMAIN trajectories :
            \A i \in 2..Len(trajectories[v].time) :
                trajectories[v].time[i] > trajectories[v].time[i-1]

\* the timesteps read carry strictly increasing times and none of them lists
\* a vehicle id twice
StrictStream ==
    /\ \A k \in 2..Len(stream) : stream[k]["time"] > stream[k-1]["time"]
    /\ \A k \in 1..Len(stream) :
          \A i, j \in 1..Len(stream[k]["vehicles"]) :
              i /= j => Get(stream[k]["vehicles"][i], "id")
                            /= Get(stream[k]["vehicles"][j], "id")

\* C7 amended: the times of every returned trajectory are non-decreasing;
\* they are strictly increasing when the timestep times are strictly
\* increasing and no timestep lists the same vehicle id twice.
C7_TimeOrdered ==
    Returned =>
        \A v \in DOMAIN trajectories :
            \A i \in 2..Len(trajectories[v].time) :
                /\ trajectories[v].time[i] >= trajectories[v].time[i-1]
                /\ StrictStream => trajectories[v].time[i] > trajectories[v].time[i-1]

\* two vehicles returned from two timesteps of increasing time
C7_Witness ==
    /\ Returned
    /\ StrictStream
    /\ DOMAIN trajectories = {"v1", "v2"}
    /\ Len(V1.time) = 2
    /\ V1.time[2] > V1.time[1]

\* the stream read so far is well formed and reports no vehicle
EmptyStream ==
    /\ Observations(stream) = 0
    /\ \A k \in 1..Len(stream) : "time" \in DOMAIN stream[k]

\* C8: a stream without vehicle observations gives the empty table, and the
\* aggregator called on it ends in an error without producing arrays.
C8_EmptyInputRaises ==
    EmptyStream =>
        /\ trajectories = <<>>
        /\ pc \in {"parsing", "parsed", "calc_raised"}
        /\ density = <<>> /\ flow = <<>> /\ speed = <<>>

\* the aggregator has raised on the table of a stream of two empty timesteps
C8_Witness ==
    /\ EmptyStream
    /\ Len(stream) = 2
    /\ trajectories = <<>>
    /\ pc = "calc_raised"
    /\ err = "ValueError"

\* C10: once an observation lacking time, position, speed or id has been
\* read the parse has failed: no table is returned and the observation is in
\* no trajectory.
C10_MissingAttributeRaises ==
    Malformed => pc = "parse_raised" /\ NoneValue \notin DOMAIN trajectories

-----------------------------------------------------------------------------
(* Claims about the share of one vehicle in one cell *)

\* the bounds [t0, t1) and [x0, x1) of cell c
T0(c) == t_bins[c[1] + 1]

T1(c) == t_bins[c[1] + 2]

X0(c) == x_bins[c[2] + 1]

X1(c) == x_bins[c[2] + 2]

\* the samples of vehicle v within the margin window [t0 - dt, t1 + dt] of c
Restricted(v, c) ==
    { i \in 1..Len(trajectories[v].time) :
        /\ trajectories[v].time[i] >= T0(c) - params.dt
        /\ trajectories[v].time[i] <= T1(c) + params.dt }

\* the position of sample i of vehicle v taken modulo L
WrappedPos(v, i) == trajectories[v].pos[i] % params.total_length

\* the restricted samples of v whose wrapped position lies in [x0, x1)
InCell(v, c) ==
    { i \in Restricted(v, c) : WrappedPos(v, i) >= X0(c) /\ WrappedPos(v, i) < X1(c) }

Nothing == [time |-> 0, distance |-> 0, crossed |-> 0]

\* the grid asked for has positive bin widths
SoundGrid == pc /= "parsed" /\ params.dx > 0 /\ params.dt > 0

\* C11: a vehicle with exactly one sample in the margin window of a cell (in
\* particular a vehicle with one sample in total) adds nothing to the cell's
\* time_spent, distance_travelled or crossing_count, and a call on a table
\* holding a single-sample trajectory does not end in an error.
C11_SingleSampleAddsNothing ==
    /\ \A c \in DOMAIN added :
          \A v \in DOMAIN trajectories :
              Cardinality(Restricted(v, c)) = 1 => added[c][v] = Nothing
    /\ (SoundGrid /\ \E v \in DOMAIN trajectories : Len(trajectories[v].time) = 1)
           => pc /= "calc_raised"

\* a returned grid with a cell that holds the only sample of one vehicle, on
\* the cell's lower boundary, and in which another vehicle spent time
C11_Witness ==
    /\ CalcReturned
    /\ \E c \in DOMAIN added :
          \E v, w \in DOMAIN trajectories :
              /\ Len(trajectories[v].time) = 1
              /\ InCell(v, c) = {1}
              /\ WrappedPos(v, 1) = X0(c)
              /\ added[c][v] = Nothing
              /\ added[c][w].time > 0
              /\ totals[c].total_time_spent = added[c][w].time

-----------------------------------------------------------------------------
(* Claims about a single traversal of the corridor *)

\* the table holds one vehicle that drives the corridor length exactly once
\* and advances between any two samples
OneSweep ==
    /\ DOMAIN trajectories = {"v1"}
    /\ Len(V1.pos) >= 2
    /\ \A i \in 2..Len(V1.pos) : V1.pos[i] > V1.pos[i-1]
    /\ V1.pos[Len(V1.pos)] - V1.pos[1] = params.total_length

RECURSIVE RowTimeSpent(_, _)
\* time_spent of time bin t summed over the space bins 0 .. x
RowTimeSpent(t, x) ==
    IF x < 0 THEN 0
    ELSE totals[<<t, x>>].total_time_spent + RowTimeSpent(t, x - 1)

\* the time vehicle v1 is on the corridor within [t0, t1) of time bin t
TimePresent(t) ==
    LET from  == IF V1.time[1] > t_bins[t + 1] THEN V1.time[1] ELSE t_bins[t + 1]
        until == IF V1.time[Len(V1.time)] < t_bins[t + 2]
                     THEN V1.time[Len(V1.time)] ELSE t_bins[t + 2]
    IN  IF until > from THEN until - from ELSE 0

Distance(a, b) == IF a > b THEN a - b ELSE b - a

\* C12: for a single vehicle that drives the full corridor exactly once
\* without stopping, in every time bin the time_spent summed over all space
\* bins differs from the time the vehicle spent within the bin by at most dt.
C12_EdieIdentity ==
    (CalcReturned /\ OneSweep) =>
        \A t \in 0..(Len(t_bins) - 2) :
            Distance(RowTimeSpent(t, Len(x_bins) - 2), TimePresent(t)) <= params.dt

\* a traversal returned on a grid of several time bins, with a bin whose
\* summed time_spent is above the time present and another where it is below
C12_Witness ==
    /\ CalcReturned
    /\ OneSweep
    /\ Len(t_bins) - 1 >= 2
    /\ \E t, u \in 0..(Len(t_bins) - 2) :
          /\ RowTimeSpent(t, Len(x_bins) - 2) > TimePresent(t)
          /\ RowTimeSpent(u, Len(x_bins) - 2) < TimePresent(u)
          /\ RowTimeSpent(u, Len(x_bins) - 2) > 0

-----------------------------------------------------------------------------
(* Claims about the returned arrays *)

\* fraction f equals n / d (d > 0)
Equals(f, n, d) == f[2] > 0 /\ f[1] * d = f[2] * n

\* C13: every returned cell has density = 1000 * time_spent / (dx * dt),
\* flow = 3600 * crossing_count / dt, and speed = 3.6 * distance_travelled /
\* time_spent when time_spent > 0 and 0 otherwise (lengths of the model are
\* centimetres: 1 m is Centimetres(1)).
C13_DerivedQuantities ==
    CalcReturned =>
        \A c \in DOMAIN density :
            /\ Equals(density[c], 1000 * Centimetres(totals[c].total_time_spent),
                      params.dx * params.dt)
            /\ Equals(flow[c], 3600 * totals[c].vehicles_crossed, params.dt)
            /\ IF totals[c].total_time_spent > 0
                   THEN Equals(speed[c], 36 * totals[c].total_distance,
                               10 * Centimetres(totals[c].total_time_spent))
                   ELSE speed[c] = Zero

\* a returned grid with a cell of time_spent 0 that counted a crossing (flow
\* above 0, speed 0) and a cell with a speed above 0
C13_Witness ==
    /\ CalcReturned
    /\ \E c, d \in DOMAIN density :
          /\ totals[c].total_time_spent = 0
          /\ totals[c].vehicles_crossed >= 1
          /\ flow[c] /= Zero
          /\ speed[c] = Zero
          /\ totals[d].total_time_spent > 0
          /\ totals[d].total_distance > 0
          /\ speed[d] /= Zero
          /\ density[d] /= Zero

\* the numbers of time and space bins of the grid in use
NumTimeBins == Len(t_bins) - 1

NumSpaceBins == Len(x_bins) - 1

\* the earliest and the latest sample time of the table
EarliestTime ==
    CHOOSE t \in AllTimes(trajectories) : \A u \in AllTimes(trajectories) : t <= u

LatestTime ==
    CHOOSE t \in AllTimes(trajectories) : \A u \in AllTimes(trajectories) : t >= u

\* C14: on a grid of positive bin widths the three returned arrays have shape
\* (T, X) and the returned bin-start vectors have lengths T and X; time bin k
\* is [t_min + k*dt, t_min + (k+1)*dt) with t_min the earliest sample time and
\* T the smallest count with t_min + T*dt >= t_max (T = 0, empty arrays, when
\* all samples share one timestamp); space bin k is [k*dx, (k+1)*dx) with X
\* the smallest count with X*dx >= L.
C14_Grid ==
    (CalcReturned /\ SoundGrid) =>
        /\ DOMAIN density = Cells(NumTimeBins, NumSpaceBins)
        /\ DOMAIN flow = Cells(NumTimeBins, NumSpaceBins)
        /\ DOMAIN speed = Cells(NumTimeBins, NumSpaceBins)
        /\ Len(BinStarts(t_bins)) = NumTimeBins
        /\ Len(BinStarts(x_bins)) = NumSpaceBins
        /\ \A k \in 0..(NumTimeBins - 1) :
              /\ BinStarts(t_bins)[k + 1] = EarliestTime + k * params.dt
              /\ \A x \in 0..(NumSpaceBins - 1) :
                    /\ T0(<<k, x>>) = EarliestTime + k * params.dt
                    /\ T1(<<k, x>>) = EarliestTime + (k + 1) * params.dt
                    /\ X0(<<k, x>>) = x * params.dx
                    /\ X1(<<k, x>>) = (x + 1) * params.dx
        /\ \A x \in 0..(NumSpaceBins - 1) : BinStarts(x_bins)[x + 1] = x * params.dx
        /\ NumTimeBins >= 0
        /\ EarliestTime + NumTimeBins * params.dt >= LatestTime
        /\ NumTimeBins > 0 =>
              EarliestTime + (NumTimeBins - 1) * params.dt < LatestTime
        /\ (EarliestTime = LatestTime) => (NumTimeBins = 0 /\ density = <<>>)
        /\ NumSpaceBins * params.dx >= params.total_length
        /\ (NumSpaceBins - 1) * params.dx < params.total_length

\* a returned grid that starts after time 0, whose last time bin ends after
\* the latest sample and whose last space bin ends beyond the corridor
C14_Witness ==
    /\ CalcReturned
    /\ SoundGrid
    /\ NumTimeBins >= 1
    /\ NumSpaceBins >= 3
    /\ EarliestTime > 0
    /\ EarliestTime + NumTimeBins * params.dt > LatestTime
    /\ NumSpaceBins * params.dx > params.total_length
    /\ DOMAIN density = Cells(NumTimeBins, NumSpaceBins)

-----------------------------------------------------------------------------
(* Claims about the table during the aggregation *)

\* C15: no step of calculate_macroscopic_quantities changes the trajectory
\* table: every vehicle's time, pos, speed and lane sequences stay as they
\* were handed in (positions stay unwrapped) and no vehicle is added or
\* removed.
C15_TableReadOnly ==
    [][(pc \in {"parsed", "cells", "calc_returned"})
           => (trajectories' = trajectories)]_vars

\* a returned call in which a sample stored beyond L counted, by its wrapped
\* position, for the time_spent of a cell, and is still stored beyond L
C15_Witness ==
    /\ CalcReturned
    /\ \E c \in DOMAIN added :
          \E v \in DOMAIN trajectories :
              \E i \in InCell(v, c) :
                  /\ trajectories[v].pos[i] >= params.total_length
                  /\ WrappedPos(v, i) < trajectories[v].pos[i]
                  /\ added[c][v].time > 0

-----------------------------------------------------------------------------
(* Claims about the wrap rule of parse_fcd_file *)

\* the corridor-relative position (raw position plus segment offset) of
\* sample i of v1
Corridor(i) == LanePosition(Get(Child(i), "lane"), Child(i)["pos"])

\* sample j lies more than L/2 below its predecessor on the corridor
DropsBelow(j) == 2 * (Corridor(j - 1) - Corridor(j)) > total_length

\* the number of such samples up to and including sample i
WrapsUpTo(i) == Cardinality({ j \in 2..i : DropsBelow(j) })

\* C16: a sample after the first counts as a lap wrap exactly when its
\* corridor-relative position is more than L/2 below that of the previous
\* sample, and every stored position is the corridor-relative position plus L
\* times the number of wraps up to and including that sample.
C16_WrapRule ==
    Returned =>
        \A i \in 1..Len(V1.pos) :
            V1.pos[i] = Corridor(i) + total_length * WrapsUpTo(i)

-----------------------------------------------------------------------------
(* Claims about the crossing count *)

\* the first and the last sample, in stream order, of a set of samples
FirstOf(samples) == CHOOSE i \in samples : \A j \in samples : i <= j

LastOf(samples) == CHOOSE i \in samples : \A j \in samples : i >= j

\* x lies within the range spanned by the first and the last entry of the
\* restricted, wrapped position array of vehicle v in cell c
InRange(x, v, c) ==
    /\ x >= WrappedPos(v, FirstOf(Restricted(v, c)))
    /\ x <= WrappedPos(v, LastOf(Restricted(v, c)))

\* C17: a vehicle adds one to the crossing_count of a cell only if both
\* boundaries x0 and x1 lie within the range of its restricted, wrapped
\* positions; with only one boundary in range it is not counted.
C17_BothBoundaries ==
    \A c \in DOMAIN added :
        \A v \in DOMAIN trajectories :
            /\ added[c][v].crossed \in {0, 1}
            /\ added[c][v].crossed = 1 =>
                  InRange(X0(c), v, c) /\ InRange(X1(c), v, c)

\* C18 as stated: a vehicle with at least two restricted samples whose
\* boundary interpolation is defined is counted, whether or not one of the
\* samples lies inside the cell.
C18_CountedWithoutSample ==
    \A c \in DOMAIN added :
        \A v \in DOMAIN trajectories :
            (/\ Cardinality(Restricted(v, c)) >= 2
             /\ InRange(X0(c), v, c)
             /\ InRange(X1(c), v, c)) => added[c][v].crossed = 1

\* C18 amended: the count depends on the in-cell samples: a vehicle without a
\* restricted sample inside [x0, x1) is never counted, whatever its boundary
\* interpolation; a vehicle with one is counted when both boundaries are in
\* range and never when neither is, whatever its time and distance in the
\* cell.
C18_CountNeedsSampleInCell ==
    \A c \in DOMAIN added :
        \A v \in DOMAIN trajectories :
            /\ InCell(v, c) = {} => added[c][v].crossed = 0
            /\ (/\ InCell(v, c) /= {}
                /\ Cardinality(Restricted(v, c)) >= 2
                /\ InRange(X0(c), v, c)
                /\ InRange(X1(c), v, c)) => added[c][v].crossed = 1
            /\ added[c][v].crossed = 1 =>
                  InRange(X0(c), v, c) \/ InRange(X1(c), v, c)

\* a vehicle with two restricted samples on either side of a cell, both
\* boundaries in range and no sample inside, that was not counted; and a
\* counted vehicle with both boundaries in range
C18_Witness ==
    \E c, d \in DOMAIN added :
        \E v \in DOMAIN trajectories :
            /\ Cardinality(Restricted(v, c)) >= 2
            /\ InCell(v, c) = {}
            /\ InRange(X0(c), v, c)
            /\ InRange(X1(c), v, c)
            /\ added[c][v].crossed = 0
            /\ InCell(v, d) /= {}
            /\ InRange(X0(d), v, d)
            /\ InRange(X1(d), v, d)
            /\ added[d][v].crossed = 1

-----------------------------------------------------------------------------
(* Claims about the time and the distance a vehicle adds to a cell *)

Least(a, b) == IF a < b THEN a ELSE b

Greatest(a, b) == IF a > b THEN a ELSE b

\* min(t1, time of the last in-cell sample) - max(t0, time of the first)
TimeBetween(v, c) ==
    Least(T1(c), trajectories[v].time[LastOf(InCell(v, c))])
        - Greatest(T0(c), trajectories[v].time[FirstOf(InCell(v, c))])

\* min(x1, wrapped position of the last in-cell sample)
\*     - max(x0, wrapped position of the first)
DistanceBetween(v, c) ==
    Least(X1(c), WrappedPos(v, LastOf(InCell(v, c))))
        - Greatest(X0(c), WrappedPos(v, FirstOf(InCell(v, c))))

\* C19: a vehicle with at least two margin-restricted samples, at least one
\* of them inside [x0, x1), adds to the cell's time_spent exactly
\* max(0, min(t1, time of its last in-cell sample) - max(t0, time of its
\* first in-cell sample)), first and last in stream order over the in-cell
\* samples only.
C19_TimeAccounting ==
    \A c \in DOMAIN added :
        \A v \in DOMAIN trajectories :
            (Cardinality(Restricted(v, c)) >= 2 /\ InCell(v, c) /= {}) =>
                added[c][v].time = Greatest(0, TimeBetween(v, c))

\* a vehicle whose first and last in-cell samples have a restricted sample
\* outside the cell between them, and which added the whole span
C19_Witness ==
    \E c \in DOMAIN added :
        \E v \in DOMAIN trajectories :
            /\ Cardinality(InCell(v, c)) >= 2
            /\ \E i \in Restricted(v, c) \ InCell(v, c) :
                  FirstOf(InCell(v, c)) < i /\ i < LastOf(InCell(v, c))
            /\ TimeBetween(v, c) > 0
            /\ added[c][v].time = TimeBetween(v, c)
            /\ added[c][v].time
                  = trajectories[v].time[LastOf(InCell(v, c))]
                        - trajectories[v].time[FirstOf(InCell(v, c))]

\* C20 as stated: a vehicle with in-cell samples adds distance_in_cell to the
\* cell's distance_travelled whenever that value is positive, whether or not
\* its time_in_cell is positive.
C20_DistanceWhateverTheTime ==
    \A c \in DOMAIN added :
        \A v \in DOMAIN trajectories :
            (/\ Cardinality(Restricted(v, c)) >= 2
             /\ InCell(v, c) /= {}
             /\ DistanceBetween(v, c) > 0) =>
                added[c][v].distance = DistanceBetween(v, c)

\* C20 amended: the vehicle adds distance_in_cell when that value and its
\* time_in_cell are both positive, and adds no distance otherwise.
C20_DistanceAccounting ==
    \A c \in DOMAIN added :
        \A v \in DOMAIN trajectories :
            (Cardinality(Restricted(v, c)) >= 2 /\ InCell(v, c) /= {}) =>
                added[c][v].distance =
                    IF DistanceBetween(v, c) > 0 /\ TimeBetween(v, c) > 0
                        THEN DistanceBetween(v, c)
                        ELSE 0

\* a vehicle that advanced inside a cell during the margin before the time
\* bin and added no distance, and one that added its distance
C20_Witness ==
    \E c, d \in DOMAIN added :
        \E v, w \in DOMAIN trajectories :
            /\ Cardinality(InCell(v, c)) >= 2
            /\ DistanceBetween(v, c) > 0
            /\ TimeBetween(v, c) <= 0
            /\ added[c][v].distance = 0
            /\ Cardinality(InCell(w, d)) >= 2
            /\ TimeBetween(w, d) > 0
            /\ added[d][w].distance = DistanceBetween(w, d)
            /\ added[d][w].distance > 0

-----------------------------------------------------------------------------
(* Claims about the margin window *)

\* the samples (time, position, speed) of vehicle v in the margin window of c
WindowSamples(v, c) ==
    { <<trajectories[v].time[i], trajectories[v].pos[i], trajectories[v].speed[i]>> :
        i \in Restricted(v, c) }

\* C21: what a vehicle adds to a cell is computed from its samples with
\* t0 - dt <= time <= t1 + dt only: two vehicles with the same samples in
\* that window add the same time, distance and crossing whatever their
\* samples outside it, a vehicle without a sample in the window adds nothing,
\* and the cell's three totals are the sums of what the vehicles add.
C21_MarginOnly ==
    \A c \in DOMAIN added :
        /\ \A v \in DOMAIN trajectories :
              Restricted(v, c) = {} => added[c][v] = Nothing
        /\ \A v, w \in DOMAIN trajectories :
              WindowSamples(v, c) = WindowSamples(w, c) => added[c][v] = added[c][w]
        /\ DOMAIN trajectories = {"v1", "v2"} =>
              /\ totals[c].total_time_spent
                    = added[c]["v1"].time + added[c]["v2"].time
              /\ totals[c].total_distance
                    = added[c]["v1"].distance + added[c]["v2"].distance
              /\ totals[c].vehicles_crossed
                    = added[c]["v1"].crossed + added[c]["v2"].crossed

\* two vehicles that differ outside the window of a cell and agree inside
\* it, with a sample on the inclusive end t1 + dt of the window, which added
\* the same time, distance and crossing
C21_Witness ==
    /\ CalcReturned
    /\ \E c \in DOMAIN added :
          /\ trajectories["v1"] /= trajectories["v2"]
          /\ WindowSamples("v1", c) = WindowSamples("v2", c)
          /\ \E i \in InCell("v1", c) :
                trajectories["v1"].time[i] = T1(c) + params.dt
          /\ added[c]["v1"] = added[c]["v2"]
          /\ added[c]["v1"].time > 0
          /\ added[c]["v1"].distance > 0
          /\ added[c]["v1"].crossed = 1

-----------------------------------------------------------------------------
(* Claims about the segment offsets *)

\* raw position plus the offset of the segment, as the sentence defines it
OffsetPosition(vehicle) ==
    IF "lane" \in DOMAIN vehicle /\ vehicle["lane"] = "b_0"
        THEN vehicle["pos"] + main_circle_length
        ELSE vehicle["pos"]

\* C22: the corridor-relative position of a sample is raw_position + 901.53
\* when its segment id is exactly b_0 and raw_position for every other id,
\* unknown or absent ones included: the first sample of a vehicle is stored
\* at that position and every later one at that position plus whole laps;
\* no segment id ends the parse in an error or drops a sample.
C22_SegmentOffset ==
    /\ pc /= "parse_raised"
    /\ Len(V1.pos) = Len(stream)
    /\ Len(V1.lane) = Len(stream)
    /\ \A i \in 1..Len(V1.pos) :
          /\ V1.lane[i] = Get(Child(i), "lane")
          /\ V1.pos[i] >= OffsetPosition(Child(i))
          /\ (V1.pos[i] - OffsetPosition(Child(i))) % total_length = 0
          /\ i = 1 => V1.pos[i] = OffsetPosition(Child(i))

\* a returned drive over an unknown segment, a sample without segment id and
\* the connector, stored at 200 m, 450 m and 901.53 m + 1 m
C22_Witness ==
    /\ Returned
    /\ Len(V1.pos) = 3
    /\ V1.lane = <<"c_0", NoneValue, "b_0">>
    /\ V1.pos = <<20000, 45000, main_circle_length + 100>>
    /\ "lane" \notin DOMAIN Child(2)

-----------------------------------------------------------------------------
(* Claims about the size of the cell values *)

\* the number of vehicles of the table
NumVehicles == Cardinality(DOMAIN trajectories)

\* fraction f is at least 0
NonNegative(f) == f[1] >= 0 /\ f[2] > 0

\* fraction f is at most n / d (d > 0)
AtMost(f, n, d) == f[2] > 0 /\ f[1] * d <= f[2] * n

\* C23: in every cell each vehicle adds at most dt to time_spent, at most dx
\* to distance_travelled and at most 1 to crossing_count, none of them
\* negative, so the totals of V vehicles lie within V*dt, V*dx and V; the
\* returned density, flow and speed are never negative, density is at most
\* 1000*V/dx and flow at most 3600*V/dt (dx in metres: Centimetres(1) per m).
C23_CellBounds ==
    /\ \A c \in DOMAIN added :
          /\ \A v \in DOMAIN trajectories :
                /\ added[c][v].time >= 0 /\ added[c][v].time <= params.dt
                /\ added[c][v].distance >= 0 /\ added[c][v].distance <= params.dx
                /\ added[c][v].crossed \in {0, 1}
          /\ totals[c].total_time_spent >= 0
          /\ totals[c].total_time_spent <= NumVehicles * params.dt
          /\ totals[c].total_distance >= 0
          /\ totals[c].total_distance <= NumVehicles * params.dx
          /\ totals[c].vehicles_crossed >= 0
          /\ totals[c].vehicles_crossed <= NumVehicles
    /\ CalcReturned =>
          \A c \in DOMAIN density :
              /\ NonNegative(density[c])
              /\ NonNegative(flow[c])
              /\ NonNegative(speed[c])
              /\ AtMost(density[c], 1000 * Centimetres(NumVehicles), params.dx)
              /\ AtMost(flow[c], 3600 * NumVehicles, params.dt)

\* a returned cell of a two-vehicle table in which both vehicles were counted
\* and one spent the whole bin, and a cell to which a vehicle added at least
\* half of dx
C23_Witness ==
    /\ CalcReturned
    /\ NumVehicles = 2
    /\ \E c \in DOMAIN added :
          /\ totals[c].vehicles_crossed = NumVehicles
          /\ \E v \in DOMAIN trajectories : added[c][v].time = params.dt
          /\ flow[c] = <<3600 * NumVehicles, params.dt>>
    /\ \E d \in DOMAIN added :
          \E v \in DOMAIN trajectories :
              /\ added[d][v].distance > 0
              /\ 2 * added[d][v].distance >= params.dx

-----------------------------------------------------------------------------
(* Claims about the aggregator of mixed_edies_analysis.py *)

\* the plain aggregator has ended on the sub-table of an earlier mixed call
BothEnded ==
    /\ first_run.made
    /\ "table" \in DOMAIN first_run
    /\ pc \in {"calc_returned", "calc_raised"}

\* C24: the mixed aggregator called with veh_type = None, or with a type T,
\* ends as the plain aggregator does on the same table, or on the sub-table
\* of the vehicles of type T: both raise, or both return the same three
\* arrays and the same bin-start vectors.
C24_FilterIsSubTable ==
    BothEnded =>
        /\ first_run.raised <=> pc = "calc_raised"
        /\ pc = "calc_raised" => err = first_run.err
        /\ pc = "calc_returned" =>
              /\ density = first_run.density
              /\ flow = first_run.flow
              /\ speed = first_run.speed
              /\ BinStarts(t_bins) = first_run.t_bins
              /\ BinStarts(x_bins) = first_run.x_bins

\* both calls returned for the type `regular` on a table whose stable
\* vehicle holds the earliest sample and shares the cell of a regular one
C24_Witness ==
    /\ BothEnded
    /\ pc = "calc_returned"
    /\ first_run.veh_type = "regular"
    /\ DOMAIN first_run.table /= DOMAIN trajectories
    /\ MinOf(AllTimes(first_run.table)) < MinOf(AllTimes(trajectories))
    /\ Len(first_run.t_bins) >= 1
    /\ \E c \in DOMAIN density : density[c] /= Zero /\ flow[c] /= Zero

-----------------------------------------------------------------------------
(* Claims about the independence of the vehicles in parse_fcd_file *)

RECURSIVE ReadAll(_, _)
\* the table after the timesteps s, read from the table traj
ReadAll(traj, s) ==
    IF s = <<>> THEN traj
    ELSE ReadAll(ReadVehicles(traj, Head(s)["time"], Head(s)["vehicles"], 1).traj,
                 Tail(s))

\* what parse_fcd_file returns for the timesteps s
Parsed(s) == Finished(ReadAll(<<>>, s))

\* the timesteps s with the observations of the vehicles in ids only
Only(s, ids) ==
    [k \in 1..Len(s) |->
        LET Kept(child) == Get(child, "id") \in ids
        IN  [s[k] EXCEPT !["vehicles"] = SelectSeq(s[k]["vehicles"], Kept)]]

\* the timesteps s with children i and i+1 of timestep k exchanged
Exchanged(s, k, i) ==
    [s EXCEPT ![k] = [s[k] EXCEPT !["vehicles"] =
        [j \in 1..Len(s[k]["vehicles"]) |->
            IF j = i THEN s[k]["vehicles"][i + 1]
            ELSE IF j = i + 1 THEN s[k]["vehicles"][i]
            ELSE s[k]["vehicles"][j]]]]

\* the timesteps s without child i of timestep k
Removed(s, k, i) ==
    [s EXCEPT ![k] = [s[k] EXCEPT !["vehicles"] = Without(s[k]["vehicles"], i)]]

\* tables a and b hold the same times, positions and speeds for vehicle v
SameTrajectory(a, b, v) ==
    /\ v \in DOMAIN a
    /\ v \in DOMAIN b
    /\ a[v].time = b[v].time
    /\ a[v].pos = b[v].pos
    /\ a[v].speed = b[v].speed

\* C25: the trajectory returned for a vehicle is the one parse_fcd_file
\* returns for that vehicle's observations alone; exchanging two neighbouring
\* observations of different vehicles in a timestep, or removing an
\* observation of another vehicle, leaves its times, positions and speeds
\* unchanged.
C25_VehiclesIndependent ==
    Returned =>
        \A v \in DOMAIN trajectories :
            /\ SameTrajectory(trajectories, Parsed(Only(stream, {v})), v)
            /\ \A k \in 1..Len(stream) :
                  \A i \in 1..Len(stream[k]["vehicles"]) :
                      /\ ( /\ i < Len(stream[k]["vehicles"])
                           /\ Get(stream[k]["vehicles"][i], "id")
                                 /= Get(stream[k]["vehicles"][i + 1], "id") )
                            => SameTrajectory(trajectories,
                                              Parsed(Exchanged(stream, k, i)), v)
                      /\ (Get(stream[k]["vehicles"][i], "id") /= v)
                            => SameTrajectory(trajectories,
                                              Parsed(Removed(stream, k, i)), v)

\* a returned table in which v1 was moved up by a lap and whose stream lists
\* another vehicle before v1 in the same timestep
C25_Witness ==
    /\ Returned
    /\ \E i \in 1..Len(V1.pos) : V1.pos[i] >= total_length
    /\ \E k \in 1..Len(stream) :
          \E i \in 2..Len(stream[k]["vehicles"]) :
              /\ Get(stream[k]["vehicles"][i], "id") = "v1"
              /\ Get(stream[k]["vehicles"][i - 1], "id") = "v2"

=============================================================================
